---- MODULE Spec2Model ----
(***************************************************************************)
(* Model of static/js/app.js: the chat composer (send), the streaming      *)
(* response handler (frame decoding, event dispatch, per-exchange state),  *)
(* the busy state of the composer, the pending images (addImageFromFile,   *)
(* the remove handler of the previews) and the deletion of rendered        *)
(* entries from memory (addRemoveButton, removeFromMemory).                *)
(*                                                                         *)
(* Text is a sequence of characters.  A JSON document is one character of  *)
(* the sequence (a lexeme): JSONparse looks its value up, and fails on     *)
(* anything else.  Every other character ("\n", " ", the letters of the    *)
(* "data: " prefix) is itself.                                             *)
(***************************************************************************)
EXTENDS Integers, Sequences, FiniteSets, TLC

\* ------------------------------------------------------------------ bounds

\* send() invocations in one run of the concurrent specification
MaxSends == 2
\* stream segments per response in the stream specification
MaxSegs == 3
\* stream segments per response in the decoder specification
MaxDecSegs == 3
\* characters per transport chunk, unless the chunk is all that is left
MaxChunk == 10
\* image files the user chooses or pastes in one run
MaxFiles == 2
\* calls of removeFromMemory() in one run
MaxDeletes == 2
\* calls of loadMemory() in one run, the one of the page load included
MaxLoads == 3

\* ------------------------------------------------------------------ text

NL == "\n"
SP == " "

IsSpace(c) == c \in {NL, SP}

\* the frame prefix "data: " (line 243)
DataPrefix == <<"d", "a", "t", "a", ":", SP>>

\* the frame separator "\n\n" (line 238)
Separator == <<NL, NL>>

\* s.slice(n): the characters after the first n (lines 115, 245)
Slice(s, n) == IF n >= Len(s) THEN <<>> ELSE SubSeq(s, n + 1, Len(s))

\* s.startsWith(p) (line 243)
StartsWith(s, p) == Len(s) >= Len(p) /\ SubSeq(s, 1, Len(p)) = p

RECURSIVE TrimLeft(_)
TrimLeft(s) == IF s # <<>> /\ IsSpace(Head(s)) THEN TrimLeft(Tail(s)) ELSE s

RECURSIVE TrimRight(_)
TrimRight(s) ==
  IF s # <<>> /\ IsSpace(s[Len(s)]) THEN TrimRight(SubSeq(s, 1, Len(s) - 1)) ELSE s

\* s.trim() (lines 144, 242)
Trim(s) == TrimRight(TrimLeft(s))

\* index of the first "\n\n" in s at or after position i, 0 when there is none
RECURSIVE FindSep(_, _)
FindSep(s, i) ==
  IF i + 1 > Len(s) THEN 0
  ELSE IF s[i] = NL /\ s[i + 1] = NL THEN i
  ELSE FindSep(s, i + 1)

\* s.split("\n\n") (line 238): left to right, separators do not overlap;
\* the result always has at least one element
RECURSIVE SplitSep(_)
SplitSep(s) ==
  LET k == FindSep(s, 1)
  IN IF k = 0 THEN <<s>>
     ELSE <<SubSeq(s, 1, k - 1)>> \o SplitSep(Slice(s, k + 1))

\* parts.pop() || "" (line 239): the last element, and the others
PopLast(parts) == parts[Len(parts)]
PopRest(parts) == SubSeq(parts, 1, Len(parts) - 1)

\* ------------------------------------------------------------------ JSON

\* the documents a frame can carry, one lexeme each
JSONDocs == {"S", "H", "E", "K", "N", "F", "Z", "U", "M", "T", "R", "W", "A", "B", "D", "G"}

\* the value of a document; the fields are those of the wire contract
JSONValue(c) ==
  CASE c = "S" -> [searching |-> TRUE]
    [] c = "H" -> [thinking |-> <<"h">>]
    [] c = "E" -> [thinking |-> <<>>]
    [] c = "K" -> [token |-> <<"k">>]
    [] c = "N" -> [done |-> TRUE]
    [] c = "F" -> [done |-> TRUE, final |-> <<"f">>]
    [] c = "Z" -> [done |-> TRUE, final |-> <<>>]
    [] c = "U" -> [ping |-> TRUE]
    [] c = "M" -> [searching |-> FALSE, thinking |-> <<"m">>, token |-> <<"k">>,
                   done |-> TRUE, final |-> <<"f">>]
    [] c = "T" -> [done |-> TRUE, error |-> TRUE, sources |-> <<"u">>,
                   image_result |-> [image_base64 |-> "b"],
                   user_timestamp |-> "t1", assistant_timestamp |-> "t2"]
    [] c = "R" -> [done |-> TRUE, user_timestamp |-> "t3",
                   assistant_timestamp |-> "t4"]
    [] c = "W" -> [done |-> TRUE, user_timestamp |-> "",
                   assistant_timestamp |-> "t5"]
    [] c = "A" -> [searching |-> TRUE, thinking |-> <<"a">>, token |-> <<"k">>,
                   done |-> TRUE, final |-> <<"f">>]
    [] c = "B" -> [token |-> <<"b">>, done |-> TRUE, final |-> <<"f">>]
    [] c = "D" -> [done |-> FALSE, final |-> <<"f">>]
    [] c = "G" -> [done |-> TRUE, final |-> <<"f">>, sources |-> <<"u">>,
                   user_timestamp |-> "t1", assistant_timestamp |-> "t2"]

\* JSON.parse (line 245) accepts white space around the document and throws
\* on everything that is not one document
JSONok(payload) == Len(Trim(payload)) = 1 /\ Trim(payload)[1] \in JSONDocs
JSONparse(payload) == JSONValue(Trim(payload)[1])

\* event.f !== undefined
Has(ev, f) == f \in DOMAIN ev
\* event.f is truthy, for a boolean field
TruthyBool(ev, f) == Has(ev, f) /\ ev[f] = TRUE
\* event.f is truthy, for a text field
TruthyText(ev, f) == Has(ev, f) /\ ev[f] # ""

\* ------------------------------------------------------------------ session

\* "Searching the web...\n\n" (line 247)
SearchMarker == <<"s", NL, NL>>

\* no timestamp bound to an entry
NoTs == ""

\* an entry as addMessage (lines 347-382) and lines 185-193 create it: no
\* timestamp attribute and no remove button
NoRemove == [attr |-> NoTs, buttons |-> <<>>]

\* the locals and the nodes send() creates for the response (lines 184-228)
NewView ==
  [ fullText |-> <<>>, sources |-> <<>>,
    generatedImageBase64 |-> "", generatedImagePath |-> "",
    showingThinking |-> TRUE, hasAnyThinking |-> FALSE,
    thinkingText |-> <<>>, collapsed |-> FALSE,
    sectionDisplay |-> "", responseDisplay |-> "none", responseText |-> <<>>,
    responseError |-> FALSE, userRemove |-> NoRemove, assistantRemove |-> NoRemove,
    doneSeen |-> FALSE ]

\* AddRemoveButton without the test for a button the entry already has
AddRemoveButtonAgain(el, timestamp) ==
  IF timestamp = NoTs THEN el
  ELSE [attr |-> timestamp, buttons |-> Append(el.buttons, timestamp)]

\* addRemoveButton (lines 333-345): el is what the entry carries, its
\* data-memory-timestamp attribute and its remove buttons, each button with
\* the timestamp its click handler holds
AddRemoveButton(el, timestamp) ==
  IF timestamp = NoTs \/ el.buttons # <<>> THEN el
  ELSE [attr |-> timestamp, buttons |-> <<timestamp>>]

\* SearchingBranch that shows the thinking region again
SearchingBranchReopens(v) ==
  [v EXCEPT !.thinkingText = @ \o SearchMarker, !.hasAnyThinking = TRUE,
            !.showingThinking = TRUE]

\* line 246-250
SearchingBranch(v) ==
  [v EXCEPT !.thinkingText = @ \o SearchMarker, !.hasAnyThinking = TRUE]

\* ThinkingBranch without the test of showingThinking
ThinkingBranchAlways(v, ev) ==
  [v EXCEPT !.hasAnyThinking = TRUE, !.thinkingText = @ \o ev.thinking]

\* lines 251-258; the branch suspends (yieldToPaint) when it has shown the delta
ThinkingBranch(v, ev) ==
  IF v.showingThinking
  THEN [v EXCEPT !.hasAnyThinking = TRUE, !.thinkingText = @ \o ev.thinking]
  ELSE v

\* TokenBranch with the assignment of the first branch in both
TokenBranchReset(v, ev) ==
  [v EXCEPT !.showingThinking = FALSE, !.collapsed = TRUE,
            !.responseDisplay = "", !.fullText = ev.token,
            !.responseText = ev.token]

\* lines 259-274
TokenBranch(v, ev) ==
  IF v.showingThinking
  THEN [v EXCEPT !.showingThinking = FALSE, !.collapsed = TRUE,
                 !.responseDisplay = "", !.fullText = ev.token,
                 !.responseText = ev.token]
  ELSE [v EXCEPT !.responseDisplay = "", !.fullText = @ \o ev.token,
                 !.responseText = v.fullText \o ev.token]

\* lines 277-281
DoneFinal(v, ev) ==
  IF Has(ev, "final")
  THEN [v EXCEPT !.fullText = ev.final, !.responseDisplay = "",
                 !.responseText = ev.final]
  ELSE v

\* lines 282-288
DoneImage(v, ev) ==
  IF Has(ev, "image_result")
  THEN IF TruthyText(ev.image_result, "generated_image_path")
       THEN [v EXCEPT !.generatedImagePath = ev.image_result.generated_image_path]
       ELSE IF TruthyText(ev.image_result, "image_base64")
            THEN [v EXCEPT !.generatedImageBase64 = ev.image_result.image_base64]
            ELSE v
  ELSE v

\* lines 289-294
DoneMeta(v, ev) ==
  [v EXCEPT !.responseError = @ \/ TruthyBool(ev, "error"),
            !.sources = IF Has(ev, "sources") THEN ev.sources ELSE <<>>,
            !.userRemove =
               IF TruthyText(ev, "user_timestamp")
               THEN AddRemoveButton(@, ev.user_timestamp) ELSE @,
            !.assistantRemove =
               IF TruthyText(ev, "assistant_timestamp")
               THEN AddRemoveButton(@, ev.assistant_timestamp) ELSE @]

\* lines 295-297
DoneHide(v) ==
  IF ~v.hasAnyThinking THEN [v EXCEPT !.sectionDisplay = "none"] ELSE v

\* lines 275-299
DoneBranch(v, ev) ==
  [DoneHide(DoneMeta(DoneImage(DoneFinal(v, ev), ev), ev)) EXCEPT !.doneSeen = TRUE]

\* Classify with the test of done first
ClassifyDoneFirst(ev) ==
  IF TruthyBool(ev, "done") THEN "done"
  ELSE IF TruthyBool(ev, "searching") THEN "searching"
  ELSE IF Has(ev, "thinking") THEN "thinking"
  ELSE IF Has(ev, "token") THEN "token"
  ELSE "none"

\* the branch of the dispatch chain a record takes (lines 246, 251, 259, 275)
Classify(ev) ==
  IF TruthyBool(ev, "searching") THEN "searching"
  ELSE IF Has(ev, "thinking") THEN "thinking"
  ELSE IF Has(ev, "token") THEN "token"
  ELSE IF TruthyBool(ev, "done") THEN "done"
  ELSE "none"

\* lines 246-299: the view after the record's branch has run
Dispatch(v, ev) ==
  LET k == Classify(ev)
  IN CASE k = "searching" -> SearchingBranch(v)
       [] k = "thinking" -> ThinkingBranch(v, ev)
       [] k = "token" -> TokenBranch(v, ev)
       [] k = "done" -> DoneBranch(v, ev)
       [] OTHER -> v

\* line 257: the thinking branch awaits yieldToPaint() when it showed the delta
Yields(v, ev) == Classify(ev) = "thinking" /\ v.showingThinking

\* lines 260 and 276: hideThinking() calls of the record's branch
Hides(ev) == IF Classify(ev) \in {"token", "done"} THEN 1 ELSE 0

\* ------------------------------------------------------------------ read loop

\* one entry of the history of a session: the record dispatched, the branch it
\* took ("malformed": JSON.parse threw) and the view it found
LogEntry(kind, ev, pre) == [kind |-> kind, ev |-> ev, pre |-> pre]

RECURSIVE RunFrames(_, _, _)

\* OnParseError with the try around the for loop: the parts after the
\* malformed one are dropped
OnParseErrorBreak(st, i, h) ==
  [st |-> [st EXCEPT !.pc = "read", !.parts = <<>>, !.i = 0], hides |-> h]

\* lines 300-302: the catch inside the for loop logs and the loop goes on with
\* the next part
OnParseError(st, i, h) == RunFrames(st, i + 1, h)

\* lines 241-304: the for loop over parts from index i (1-based), h counting
\* the hideThinking() calls so far; it stops at the end of parts (the session
\* awaits the next read) or at a yieldToPaint()
RunFrames(st, i, h) ==
  IF i > Len(st.parts)
  THEN [st |-> [st EXCEPT !.pc = "read", !.parts = <<>>, !.i = 0], hides |-> h]
  ELSE LET line == Trim(st.parts[i])
           st1 == [st EXCEPT !.handed = Append(@, st.parts[i])]
       IN IF ~StartsWith(line, DataPrefix)
          THEN RunFrames(st1, i + 1, h)
          ELSE IF ~JSONok(Slice(line, 6))
               THEN OnParseError(
                      [st1 EXCEPT !.log =
                         Append(@, LogEntry("malformed", [bad |-> TRUE], st.v))],
                      i, h)
               ELSE LET ev == JSONparse(Slice(line, 6))
                        st2 == [st1 EXCEPT
                                  !.v = Dispatch(st.v, ev),
                                  !.log = Append(@, LogEntry(Classify(ev), ev, st.v))]
                    IN IF Yields(st.v, ev)
                       THEN [st |-> [st2 EXCEPT !.pc = "yield", !.i = i],
                             hides |-> h + Hides(ev)]
                       ELSE RunFrames(st2, i + 1, h + Hides(ev))

\* TakeChunk with the buffer emptied instead of keeping the last part
TakeChunkDropTail(st, chunk) ==
  LET parts == SplitSep(st.buffer \o chunk)
  IN [st EXCEPT !.buffer = <<>>, !.parts = PopRest(parts)]

\* lines 237-239: the chunk joins the buffer, the text after the last
\* separator stays in the buffer, the parts before it go to the for loop
TakeChunk(st, chunk) ==
  LET parts == SplitSep(st.buffer \o chunk)
  IN [st EXCEPT !.buffer = PopLast(parts), !.parts = PopRest(parts)]

\* lines 307-323: after the loop, what is added to the assistant entry
Finalise(v, marked) ==
  [ rendered |-> marked /\ v.fullText # <<>>,
    sourcesShown |-> v.sources # <<>>,
    imageShown |-> v.generatedImagePath # "" \/ v.generatedImageBase64 # "" ]

\* ------------------------------------------------------------------ state

VARIABLES
  inputValue,        \* #input.value
  pendingImages,     \* pendingImages (line 8): data URLs, in order
  disabled,          \* the disabled flags of #input, #sendBtn and #attachBtn
  messages,          \* the children of #messages, in document order
  sess,              \* the send() invocations so far: locals and created nodes
  net,               \* per invocation: the chat request and the response stream
  personaId,         \* currentPersonaId() (line 18), NoPid for null
  defaultPersonaId,  \* defaultPersonaId (line 28), NoPid for null
  personaNameCache,  \* personaNameCache (line 27): persona id -> display name
  markedLoaded,      \* typeof marked !== "undefined"
  lastSend,          \* how the latest call of send() left its guard (line 145)
  files,             \* the files chosen or pasted: not yet, being read, read
  deletions,         \* the calls of removeFromMemory() so far
  loads              \* the calls of loadMemory() so far

vars == <<inputValue, pendingImages, disabled, messages, sess, net, personaId,
          defaultPersonaId, personaNameCache, markedLoaded,
          lastSend, files, deletions, loads>>

NoPid == "null"

\* lines 86-93
setBusy(busy) == [input |-> busy, sendBtn |-> busy, attachBtn |-> busy]

\* lines 1-6
showError(msgs, s, msg) ==
  Append(msgs, [kind |-> "error", of |-> s, text |-> msg, images |-> <<>>])

\* lines 95-101
showThinking(msgs, s) ==
  Append(msgs, [kind |-> "thinking", of |-> s, text |-> "Thinking...", images |-> <<>>])

\* lines 103-106: getElementById finds the first indicator in document order
RECURSIVE hideThinking(_)
hideThinking(msgs) ==
  IF msgs = <<>> THEN <<>>
  ELSE IF Head(msgs).kind = "thinking" THEN Tail(msgs)
  ELSE <<Head(msgs)>> \o hideThinking(Tail(msgs))

\* n calls of hideThinking()
RECURSIVE hideThinkingTimes(_, _)
hideThinkingTimes(msgs, n) ==
  IF n = 0 THEN msgs ELSE hideThinkingTimes(hideThinking(msgs), n - 1)

\* lines 113-116
dataUrlToBase64(dataUrl) ==
  LET idx == CHOOSE k \in 0..Len(dataUrl) :
               /\ k = 0 \/ dataUrl[k] = ","
               /\ \A j \in 1..Len(dataUrl) : dataUrl[j] = "," => (k # 0 /\ k <= j)
  IN IF idx # 0 THEN Slice(dataUrl, idx) ELSE dataUrl

\* pendingImages.map(dataUrlToBase64) (line 148)
MapBase64(imgs) == [k \in 1..Len(imgs) |-> dataUrlToBase64(imgs[k])]

\* the persona whose name send() looks up (lines 32-33)
LookupPid == IF personaId # NoPid THEN personaId ELSE defaultPersonaId

\* the state of an invocation that has passed the guard (line 145) and awaits
\* the persona name (line 147)
NewSess(text, pid) ==
  [ pc |-> "awaitName", text |-> text, lookup |-> pid, assistantLabel |-> "",
    imagesForRequest |-> <<>>, buffer |-> <<>>, parts |-> <<>>, i |-> 0,
    v |-> NewView, after |-> Finalise(NewView, FALSE),
    log |-> <<>>, handed |-> <<>>, eof |-> FALSE ]

\* a body that is not JSON
NoBody == [json |-> FALSE, error |-> ""]

\* the request of an invocation and its response: the body, how many of its
\* characters have been read, and the body of a response that is not ok as
\* res.text() gave it (line 173)
NewNet == [request |-> [sent |-> FALSE], all |-> <<>>, pos |-> 0, errBody |-> NoBody]

\* the part of the body not yet read
Rest(n) == Slice(n.all, n.pos)

\* lines 159-164: the body of the chat request
Payload(text, imgs) ==
  [ sent |-> TRUE, message |-> text, images |-> imgs, persona_id |-> personaId ]

\* seq with val as its element s, which is an element it has or the next one
Put(seq, s, val) == IF s > Len(seq) THEN Append(seq, val) ELSE [seq EXCEPT ![s] = val]

\* AfterName without line 151: the pending list is not cleared
AfterNameKeepsPending(s, st, label) ==
  /\ sess' = Put(sess, s,
                 [st EXCEPT !.pc = "awaitFetch", !.assistantLabel = label,
                            !.imagesForRequest = MapBase64(pendingImages)])
  /\ messages' =
       showThinking(
         Append(messages,
                [kind |-> "user", of |-> s,
                 text |-> IF st.text # <<>> THEN st.text ELSE <<"(image)">>,
                 images |-> pendingImages]),
         s)
  /\ inputValue' = <<>>
  /\ pendingImages' = pendingImages
  /\ disabled' = setBusy(TRUE)
  /\ net' = Put(net, s,
                [NewNet EXCEPT !.request = Payload(st.text, MapBase64(pendingImages))])

\* lines 148-170: from the persona name to the chat request, for invocation s
\* whose locals are st
AfterName(s, st, label) ==
  /\ sess' = Put(sess, s,
                 [st EXCEPT !.pc = "awaitFetch", !.assistantLabel = label,
                            !.imagesForRequest = MapBase64(pendingImages)])
  /\ messages' =
       showThinking(
         Append(messages,
                [kind |-> "user", of |-> s,
                 text |-> IF st.text # <<>> THEN st.text ELSE <<"(image)">>,
                 images |-> pendingImages]),
         s)
  /\ inputValue' = <<>>
  /\ pendingImages' = <<>>
  /\ disabled' = setBusy(TRUE)
  /\ net' = Put(net, s,
                [NewNet EXCEPT !.request = Payload(st.text, MapBase64(pendingImages))])

\* send() without its guard
NothingToSendNever(text, imgs) == FALSE

\* line 145: the test under which send() returns at once
NothingToSend(text, imgs) == text = <<>> /\ imgs = <<>>

\* lines 142-147: send() up to its first await.  A name that needs no lookup
\* (lines 34-35) is a resolved promise: the invocation goes on in the same
\* task, before any other handler runs.
send(maxSends) ==
  LET text == Trim(inputValue)
      s == Len(sess) + 1
      pid == LookupPid
  IN IF NothingToSend(text, pendingImages)
     THEN /\ lastSend' = "returned"
          /\ UNCHANGED <<inputValue, pendingImages, disabled, messages, sess, net,
                         personaId, defaultPersonaId, personaNameCache,
                         markedLoaded, files, deletions, loads>>
     ELSE /\ Len(sess) < maxSends
          /\ lastSend' = "passed"
          /\ IF pid = NoPid \/ pid \in DOMAIN personaNameCache
             THEN /\ AfterName(s, NewSess(text, pid),
                               IF pid = NoPid THEN "Assistant"
                               ELSE personaNameCache[pid])
                  /\ UNCHANGED <<personaId, defaultPersonaId, personaNameCache,
                                 markedLoaded, files, deletions, loads>>
             ELSE /\ sess' = Append(sess, NewSess(text, pid))
                  /\ net' = Append(net, NewNet)
                  /\ UNCHANGED <<inputValue, pendingImages, disabled, messages,
                                 personaId, defaultPersonaId, personaNameCache,
                                 markedLoaded, files, deletions, loads>>

\* ------------------------------------------------------------------ actions

\* the user edits the input, which an enabled input allows
Type(t) ==
  /\ ~disabled.input
  /\ inputValue # t
  /\ inputValue' = t
  /\ UNCHANGED <<pendingImages, disabled, messages, sess, net, personaId,
                 defaultPersonaId, personaNameCache, markedLoaded,
                 lastSend, files, deletions, loads>>

\* line 624: a click on the send button, which an enabled button allows
ClickSend(maxSends) == ~disabled.sendBtn /\ send(maxSends)

\* lines 625-630: Enter in the input, which an enabled input allows
PressEnter(maxSends) == ~disabled.input /\ send(maxSends)

\* the replies of GET /personas/<pid> (lines 36-45)
PersonaReplies == {[kind |-> "ok", name |-> "Ada"], [kind |-> "ok", name |-> ""],
                   [kind |-> "notok", name |-> ""], [kind |-> "reject", name |-> ""]}

\* lines 36-45 and 147: the lookup settles and send() goes on
PersonaReply(s, reply) ==
  /\ s \in 1..Len(sess)
  /\ sess[s].pc = "awaitName"
  /\ LET pid == sess[s].lookup
         name == IF reply.name # "" THEN reply.name ELSE pid
     IN IF reply.kind = "ok"
        THEN /\ personaNameCache' =
                  [p \in DOMAIN personaNameCache \cup {pid} |->
                     IF p = pid THEN name ELSE personaNameCache[p]]
             /\ AfterName(s, sess[s], name)
        ELSE /\ UNCHANGED personaNameCache
             /\ AfterName(s, sess[s], pid)
  /\ UNCHANGED <<personaId, defaultPersonaId, markedLoaded,
                                              lastSend, files, deletions,
                                              loads>>

\* CatchFinally without setBusy(false)
CatchFinallyStaysBusy(s, st) ==
  /\ sess' = [sess EXCEPT ![s] = [st EXCEPT !.pc = "failed"]]
  /\ messages' = hideThinking(showError(messages, s, "Could not reach the server."))
  /\ disabled' = disabled

\* lines 324-330: catch and finally of send()
CatchFinally(s, st) ==
  /\ sess' = [sess EXCEPT ![s] = [st EXCEPT !.pc = "failed"]]
  /\ messages' = hideThinking(showError(messages, s, "Could not reach the server."))
  /\ disabled' = setBusy(FALSE)

\* line 166: the chat request is rejected (network failure)
FetchReject(s) ==
  /\ s \in 1..Len(sess)
  /\ sess[s].pc = "awaitFetch"
  /\ CatchFinally(s, sess[s])
  /\ UNCHANGED <<inputValue, pendingImages, net, personaId, defaultPersonaId,
                 personaNameCache, markedLoaded,
                 lastSend, files, deletions, loads>>

\* lines 172-173: a response that is not ok; send() awaits its body
FetchNotOk(s) ==
  /\ s \in 1..Len(sess)
  /\ sess[s].pc = "awaitFetch"
  /\ sess' = [sess EXCEPT ![s].pc = "awaitErrBody"]
  /\ UNCHANGED <<inputValue, pendingImages, disabled, messages, net, personaId,
                 defaultPersonaId, personaNameCache, markedLoaded,
                 lastSend, files, deletions, loads>>

\* the bodies of a response that is not ok: JSON with an error field, JSON
\* without one, and text that is not JSON; error is "" where there is none
ErrBodies == {[json |-> TRUE, error |-> "quota"], [json |-> TRUE, error |-> ""],
              [json |-> FALSE, error |-> ""]}

\* ErrBody that shows the status whatever the body says
ErrBodyStatusOnly(s, body) ==
  /\ s \in 1..Len(sess)
  /\ sess[s].pc = "awaitErrBody"
  /\ sess' = [sess EXCEPT ![s].pc = "refused"]
  /\ net' = [net EXCEPT ![s].errBody = body]
  /\ messages' = hideThinking(showError(messages, s, "Server returned status"))
  /\ disabled' = setBusy(FALSE)
  /\ UNCHANGED <<inputValue, pendingImages, personaId, defaultPersonaId,
                 personaNameCache, markedLoaded, lastSend, files, deletions,
                 loads>>

\* lines 174-181 and 327-330: the body arrives, the error is shown, send()
\* returns through finally
ErrBody(s, body) ==
  /\ s \in 1..Len(sess)
  /\ sess[s].pc = "awaitErrBody"
  /\ sess' = [sess EXCEPT ![s].pc = "refused"]
  /\ net' = [net EXCEPT ![s].errBody = body]
  /\ messages' =
       hideThinking(
         showError(messages, s,
                   IF body.json /\ body.error # "" THEN body.error
                   ELSE "Server returned status"))
  /\ disabled' = setBusy(FALSE)
  /\ UNCHANGED <<inputValue, pendingImages, personaId, defaultPersonaId,
                 personaNameCache, markedLoaded, lastSend, files, deletions,
                 loads>>

\* line 173: reading the body fails
ErrBodyReject(s) ==
  /\ s \in 1..Len(sess)
  /\ sess[s].pc = "awaitErrBody"
  /\ CatchFinally(s, sess[s])
  /\ UNCHANGED <<inputValue, pendingImages, net, personaId, defaultPersonaId,
                 personaNameCache, markedLoaded,
                 lastSend, files, deletions, loads>>

\* lines 183-228: an ok response whose body will carry one of texts; the
\* indicator goes, the assistant entry and the locals of the exchange are
\* created
FetchOk(s, texts) ==
  /\ s \in 1..Len(sess)
  /\ sess[s].pc = "awaitFetch"
  /\ sess' = [sess EXCEPT ![s].pc = "read"]
  /\ messages' =
       Append(hideThinking(messages),
              [kind |-> "assistant", of |-> s, text |-> sess[s].assistantLabel,
               images |-> <<>>])
  /\ \E txt \in texts : net' = [net EXCEPT ![s].all = txt]
  /\ UNCHANGED <<inputValue, pendingImages, disabled, personaId, defaultPersonaId,
                 personaNameCache, markedLoaded,
                 lastSend, files, deletions, loads>>

\* lines 235-304: reader.read() yields the next n characters of the body and
\* the loop body runs up to the next await
ReadChunk(s, n) ==
  /\ s \in 1..Len(sess)
  /\ sess[s].pc = "read"
  /\ n \in 1..Len(Rest(net[s]))
  /\ LET r == RunFrames(TakeChunk(sess[s], SubSeq(Rest(net[s]), 1, n)), 1, 0)
     IN /\ sess' = [sess EXCEPT ![s] = r.st]
        /\ messages' = hideThinkingTimes(messages, r.hides)
  /\ net' = [net EXCEPT ![s].pos = @ + n]
  /\ UNCHANGED <<inputValue, pendingImages, disabled, personaId, defaultPersonaId,
                 personaNameCache, markedLoaded,
                 lastSend, files, deletions, loads>>

\* line 257: the timer of yieldToPaint() fires and the for loop goes on
Resume(s) ==
  /\ s \in 1..Len(sess)
  /\ sess[s].pc = "yield"
  /\ LET r == RunFrames(sess[s], sess[s].i + 1, 0)
     IN /\ sess' = [sess EXCEPT ![s] = r.st]
        /\ messages' = hideThinkingTimes(messages, r.hides)
  /\ UNCHANGED <<inputValue, pendingImages, disabled, net, personaId,
                 defaultPersonaId, personaNameCache, markedLoaded,
                 lastSend, files, deletions, loads>>

\* StreamEnd that hands what is left in the buffer to the for loop
StreamEndFlushesBuffer(st, marked) ==
  LET r == RunFrames([st EXCEPT !.parts = <<st.buffer>>], 1, 0).st
  IN [r EXCEPT !.pc = "finished", !.eof = TRUE, !.after = Finalise(r.v, marked)]

\* StreamEnd that leaves the loop only after a done record
StreamEndNeedsDone(st, marked) ==
  IF st.v.doneSeen
  THEN [st EXCEPT !.pc = "finished", !.eof = TRUE, !.after = Finalise(st.v, marked)]
  ELSE [st EXCEPT !.eof = TRUE]

\* line 236 and lines 307-330: the body has ended; the loop is left
StreamEnd(st, marked) ==
  [st EXCEPT !.pc = "finished", !.eof = TRUE, !.after = Finalise(st.v, marked)]

\* lines 235-236, 307-330: reader.read() reports the end of the body
ReadDone(s) ==
  /\ s \in 1..Len(sess)
  /\ sess[s].pc = "read"
  /\ Rest(net[s]) = <<>>
  /\ sess' = [sess EXCEPT ![s] = StreamEnd(sess[s], markedLoaded)]
  /\ messages' = hideThinking(messages)
  /\ disabled' = setBusy(FALSE)
  /\ UNCHANGED <<inputValue, pendingImages, net, personaId, defaultPersonaId,
                 personaNameCache, markedLoaded,
                 lastSend, files, deletions, loads>>

\* line 235: reader.read() is rejected (the connection drops)
ReadFail(s) ==
  /\ s \in 1..Len(sess)
  /\ sess[s].pc = "read"
  /\ CatchFinally(s, sess[s])
  /\ UNCHANGED <<inputValue, pendingImages, net, personaId, defaultPersonaId,
                 personaNameCache, markedLoaded,
                 lastSend, files, deletions, loads>>

\* the files of a run: file 0 is not an image, the others are, and each is
\* chosen at most once; the images with an even number cannot be resized
Files == 0..MaxFiles
FileType(f) == IF f = 0 THEN "text/plain" ELSE "image/png"
Resizable(f) == f % 2 = 1

\* reader.result (line 502) and the data URL resizeImageToDataUrl resolves
\* with (line 504): a header, a comma, the content
Original(f) == <<"p", ",", ToString(f)>>
Resized(f) == <<"j", ",", ToString(f)>>

\* lines 498-501 and 514: a file that is not an image is dropped, an image
\* starts to be read
addImageFromFile(f) ==
  IF FileType(f) # "image/png"
  THEN UNCHANGED vars
  ELSE /\ files[f] = "idle"
       /\ files' = [files EXCEPT ![f] = "reading"]
       /\ UNCHANGED <<inputValue, pendingImages, disabled, messages, sess, net,
                      personaId, defaultPersonaId, personaNameCache, markedLoaded,
                      lastSend, deletions, loads>>

\* lines 604-609: the attach button, which an enabled button allows, and the
\* file the user then chooses
ChooseFile(f) == ~disabled.attachBtn /\ addImageFromFile(f)

\* lines 612-622: an image pasted into the input, which an enabled input allows
PasteImage(f) ==
  /\ ~disabled.input
  /\ FileType(f) = "image/png"
  /\ addImageFromFile(f)

\* lines 501-513: the file is read and resized, or the resize fails and the
\* original is kept; the data URL joins the pending list
ImageRead(f) ==
  /\ files[f] = "reading"
  /\ files' = [files EXCEPT ![f] = "read"]
  /\ pendingImages' =
       Append(pendingImages, IF Resizable(f) THEN Resized(f) ELSE Original(f))
  /\ UNCHANGED <<inputValue, disabled, messages, sess, net, personaId,
                 defaultPersonaId, personaNameCache, markedLoaded, lastSend,
                 deletions, loads>>

\* pendingImages.splice(i, 1), with i counted from 1
Splice(imgs, i) == SubSeq(imgs, 1, i - 1) \o SubSeq(imgs, i + 1, Len(imgs))

\* lines 132-135: the remove button of the i-th preview
RemoveAttachment(i) ==
  /\ i \in 1..Len(pendingImages)
  /\ pendingImages' = Splice(pendingImages, i)
  /\ UNCHANGED <<inputValue, disabled, messages, sess, net, personaId,
                 defaultPersonaId, personaNameCache, markedLoaded, lastSend,
                 files, deletions, loads>>

\* the entry of invocation s of the given kind ("user" or "assistant") is a
\* child of #messages (msgEl.parentNode, line 394)
Rendered(msgs, s, kind) ==
  \E k \in 1..Len(msgs) : msgs[k].kind = kind /\ msgs[k].of = s

\* msgEl.remove() (line 395)
RemoveEntry(msgs, s, kind) ==
  SelectSeq(msgs, LAMBDA m : ~(m.kind = kind /\ m.of = s))

\* what the entry of invocation s of the given kind carries
RemoveOf(s, kind) ==
  IF kind = "user" THEN sess[s].v.userRemove ELSE sess[s].v.assistantRemove

\* lines 341-343 and 384-393: a click on the remove button of a rendered
\* entry calls removeFromMemory with the timestamp the button holds, which
\* posts it to /memory/delete
ClickRemove(s, kind) ==
  /\ s \in 1..Len(sess)
  /\ Len(deletions) < MaxDeletes
  /\ Rendered(messages, s, kind)
  /\ RemoveOf(s, kind).buttons # <<>>
  /\ deletions' =
       Append(deletions,
              [of |-> s, kind |-> kind, pc |-> "pending",
               body |-> [timestamp |-> RemoveOf(s, kind).buttons[1],
                         persona_id |-> personaId]])
  /\ UNCHANGED <<inputValue, pendingImages, disabled, messages, sess, net,
                 personaId, defaultPersonaId, personaNameCache, markedLoaded,
                 lastSend, files, loads>>

\* lines 394-395: the store reports success; the entry is removed if it is
\* still rendered
DeleteOk(d) ==
  /\ d \in 1..Len(deletions)
  /\ deletions[d].pc = "pending"
  /\ deletions' = [deletions EXCEPT ![d].pc = "succeeded"]
  /\ messages' =
       IF Rendered(messages, deletions[d].of, deletions[d].kind)
       THEN RemoveEntry(messages, deletions[d].of, deletions[d].kind)
       ELSE messages
  /\ UNCHANGED <<inputValue, pendingImages, disabled, sess, net, personaId,
                 defaultPersonaId, personaNameCache, markedLoaded, lastSend,
                 files, loads>>

\* lines 396-397: the store reports a failure; removeFromMemory awaits the body
DeleteNotOk(d) ==
  /\ d \in 1..Len(deletions)
  /\ deletions[d].pc = "pending"
  /\ deletions' = [deletions EXCEPT ![d].pc = "awaitErrBody"]
  /\ UNCHANGED <<inputValue, pendingImages, disabled, messages, sess, net,
                 personaId, defaultPersonaId, personaNameCache, markedLoaded,
                 lastSend, files, loads>>

\* lines 397-398: the body arrives, or cannot be read as JSON and counts as
\* {}; the error is shown
DeleteErrBody(d, body) ==
  /\ d \in 1..Len(deletions)
  /\ deletions[d].pc = "awaitErrBody"
  /\ deletions' = [deletions EXCEPT ![d].pc = "failed"]
  /\ messages' =
       showError(messages, 0,
                 IF body.json /\ body.error # "" THEN body.error
                 ELSE "Failed to remove from memory")
  /\ UNCHANGED <<inputValue, pendingImages, disabled, sess, net, personaId,
                 defaultPersonaId, personaNameCache, markedLoaded, lastSend,
                 files, loads>>

\* lines 400-402: the request is rejected (network failure)
DeleteReject(d) ==
  /\ d \in 1..Len(deletions)
  /\ deletions[d].pc = "pending"
  /\ deletions' = [deletions EXCEPT ![d].pc = "unreachable"]
  /\ messages' = showError(messages, 0, "Could not reach the server.")
  /\ UNCHANGED <<inputValue, pendingImages, disabled, sess, net, personaId,
                 defaultPersonaId, personaNameCache, markedLoaded, lastSend,
                 files, loads>>

\* ------------------------------------------------------------------ history

\* the options of #personaSelect (lines 531-546): "" for the default, and
\* the public personas
Personas == {"p1", "p2"}

\* the store GET /memory/recent reads for a request made with persona p:
\* the default persona's when the request names none (lines 428-430)
StoreOf(p) == IF p # NoPid THEN p ELSE defaultPersonaId

\* what a store answers GET /memory/recent with (data.entries, line 434):
\* nothing, or a question and its answer
Histories ==
  { <<>>,
    << [role |-> "user", content |-> "q", timestamp |-> "t1"],
       [role |-> "assistant", content |-> "a", timestamp |-> "t2"] >> }

\* lines 427-431: loadMemory() has read currentPersonaId() into the url and
\* awaits the request
NewLoad(p) == [pid |-> p, pc |-> "awaitFetch", entries |-> <<>>, lookup |-> NoPid]

\* the load of the page (lines 596-598) has returned and rendered nothing
FirstLoadReturned(p) == [NewLoad(p) EXCEPT !.pc = "returned"]

\* lines 436-441 and addMessage (lines 347-382): the entry of index i that
\* invocation l renders, with the store it was read from
LoadedEntry(l, i, entry, label, store) ==
  [ kind |-> "memory", of |-> <<l, i>>, text |-> entry.content, images |-> <<>>,
    cls |-> IF entry.role = "user" THEN "user" ELSE "assistant",
    sender |-> IF entry.role = "user" THEN "You" ELSE label,
    remove |-> AddRemoveButton(NoRemove, entry.timestamp),
    store |-> store ]

\* lines 436-457: entries.forEach appends the entries and loadMemory()
\* returns
RenderLoaded(l, entries, label) ==
  /\ messages' =
       messages \o [i \in 1..Len(entries) |->
                      LoadedEntry(l, i, entries[i], label, StoreOf(loads[l].pid))]
  /\ loads' = [loads EXCEPT ![l].pc = "returned", ![l].entries = entries]

\* lines 552-555: the change handler of #personaSelect, after the selection
\* became p: the list is emptied and loadMemory() is called
ChangePersona(p, maxLoads) ==
  /\ p \in Personas \cup {NoPid}
  /\ p # personaId
  /\ Len(loads) < maxLoads
  /\ personaId' = p
  /\ messages' = <<>>
  /\ loads' = Append(loads, NewLoad(p))
  /\ UNCHANGED <<inputValue, pendingImages, disabled, sess, net,
                 defaultPersonaId, personaNameCache, markedLoaded, lastSend,
                 files, deletions>>

\* lines 431-432: the store answers with a status that is not ok
LoadNotOk(l) ==
  /\ l \in 1..Len(loads)
  /\ loads[l].pc = "awaitFetch"
  /\ loads' = [loads EXCEPT ![l].pc = "returned"]
  /\ UNCHANGED <<inputValue, pendingImages, disabled, messages, sess, net,
                 personaId, defaultPersonaId, personaNameCache, markedLoaded,
                 lastSend, files, deletions>>

\* lines 431, 433 and 459-461: the request is rejected, or the body is not
\* JSON; the catch block only warns
LoadReject(l) ==
  /\ l \in 1..Len(loads)
  /\ loads[l].pc \in {"awaitFetch", "awaitJson"}
  /\ loads' = [loads EXCEPT ![l].pc = "failed"]
  /\ UNCHANGED <<inputValue, pendingImages, disabled, messages, sess, net,
                 personaId, defaultPersonaId, personaNameCache, markedLoaded,
                 lastSend, files, deletions>>

\* lines 431-433: the store answers ok; loadMemory() awaits the body
LoadOk(l) ==
  /\ l \in 1..Len(loads)
  /\ loads[l].pc = "awaitFetch"
  /\ loads' = [loads EXCEPT ![l].pc = "awaitJson"]
  /\ UNCHANGED <<inputValue, pendingImages, disabled, messages, sess, net,
                 personaId, defaultPersonaId, personaNameCache, markedLoaded,
                 lastSend, files, deletions>>

\* lines 433-435 and 31-35: the body arrives; getCurrentPersonaName() reads
\* currentPersonaId() now, and its promise is already resolved when there
\* is no persona or the name is cached
LoadJson(l, entries) ==
  /\ l \in 1..Len(loads)
  /\ loads[l].pc = "awaitJson"
  /\ LET pid == LookupPid
     IN IF pid = NoPid \/ pid \in DOMAIN personaNameCache
        THEN RenderLoaded(l, entries,
                          IF pid = NoPid THEN "Assistant"
                          ELSE personaNameCache[pid])
        ELSE /\ loads' = [loads EXCEPT ![l].pc = "awaitName",
                                       ![l].entries = entries,
                                       ![l].lookup = pid]
             /\ UNCHANGED messages
  /\ UNCHANGED <<inputValue, pendingImages, disabled, sess, net, personaId,
                 defaultPersonaId, personaNameCache, markedLoaded, lastSend,
                 files, deletions>>

\* lines 36-45 and 435: the lookup of the name settles and the entries are
\* rendered
LoadName(l, reply) ==
  /\ l \in 1..Len(loads)
  /\ loads[l].pc = "awaitName"
  /\ LET pid == loads[l].lookup
         name == IF reply.name # "" THEN reply.name ELSE pid
     IN IF reply.kind = "ok"
        THEN /\ personaNameCache' =
                  [p \in DOMAIN personaNameCache \cup {pid} |->
                     IF p = pid THEN name ELSE personaNameCache[p]]
             /\ RenderLoaded(l, loads[l].entries, name)
        ELSE /\ UNCHANGED personaNameCache
             /\ RenderLoaded(l, loads[l].entries, pid)
  /\ UNCHANGED <<inputValue, pendingImages, disabled, sess, net, personaId,
                 defaultPersonaId, markedLoaded, lastSend, files, deletions>>

\* lines 341-343 and 384-393: a click on the remove button of the k-th
\* child of #messages, an entry loadMemory() rendered; removeFromMemory
\* posts the timestamp with currentPersonaId() as it is now
ClickRemoveLoaded(k) ==
  /\ k \in 1..Len(messages)
  /\ messages[k].kind = "memory"
  /\ messages[k].remove.buttons # <<>>
  /\ Len(deletions) < MaxDeletes
  /\ deletions' =
       Append(deletions,
              [of |-> messages[k].of, kind |-> "memory", pc |-> "pending",
               body |-> [timestamp |-> messages[k].remove.buttons[1],
                         persona_id |-> personaId],
               store |-> messages[k].store])
  /\ UNCHANGED <<inputValue, pendingImages, disabled, messages, sess, net,
                 personaId, defaultPersonaId, personaNameCache, markedLoaded,
                 lastSend, files, loads>>

\* ------------------------------------------------------------------ inputs

\* one frame carrying the lexeme c
Frame(c) == DataPrefix \o <<c>> \o Separator

\* the concatenations of at most n of the segments
RECURSIVE Concats(_, _)
Concats(segs, n) ==
  IF n = 0 THEN {<<>>}
  ELSE LET prev == Concats(segs, n - 1)
       IN prev \cup {t \o g : t \in prev, g \in segs}

\* what the user types
InputTexts == {<<SP>>, <<"h", "i">>}

\* the response bodies of the concurrent specification
ConcTexts == {<<>>, Frame("H") \o Frame("K") \o Frame("N")}

\* the segments of the stream specification: searching, thinking, token,
\* done without and with final (also empty), and a frame that is not JSON
StreamSegs == {Frame(c) : c \in {"S", "H", "K", "N", "F", "Z", "X"}}
StreamTexts == Concats(StreamSegs, MaxSegs)

\* the chunk lengths of the stream and decoder specifications: up to MaxChunk
\* characters, or everything that is left
ChunkSizes(rest) == {n \in 1..Len(rest) : n <= MaxChunk \/ n = Len(rest)}

\* the chunk lengths of a transport that flushes at line ends
LineChunks(rest) == {n \in 1..Len(rest) : n = Len(rest) \/ rest[n] = NL}

\* ------------------------------------------------------------------ specifications

Init ==
  /\ inputValue = <<>>
  /\ pendingImages = <<>>
  /\ disabled = setBusy(FALSE)
  /\ messages = <<>>
  /\ sess = <<>>
  /\ net = <<>>
  /\ personaId \in {NoPid, "p1"}
  /\ defaultPersonaId = NoPid
  /\ personaNameCache = [p \in {} |-> ""]
  /\ markedLoaded \in BOOLEAN
  /\ lastSend = "none"
  /\ files = [f \in Files |-> "idle"]
  /\ deletions = <<>>
  /\ loads = <<FirstLoadReturned(personaId)>>

Next ==
  \/ \E t \in InputTexts : Type(t)
  \/ ClickSend(MaxSends)
  \/ PressEnter(MaxSends)
  \/ \E s \in 1..Len(sess), reply \in PersonaReplies : PersonaReply(s, reply)
  \/ \E s \in 1..Len(sess) : FetchReject(s)
  \/ \E s \in 1..Len(sess) : FetchNotOk(s)
  \/ \E s \in 1..Len(sess), body \in ErrBodies : ErrBody(s, body)
  \/ \E s \in 1..Len(sess) : ErrBodyReject(s)
  \/ \E s \in 1..Len(sess) : FetchOk(s, ConcTexts)
  \/ \E s \in 1..Len(sess) : \E n \in LineChunks(Rest(net[s])) : ReadChunk(s, n)
  \/ \E s \in 1..Len(sess) : Resume(s)
  \/ \E s \in 1..Len(sess) : ReadDone(s)
  \/ \E s \in 1..Len(sess) : ReadFail(s)

Spec == Init /\ [][Next]_vars

\* one exchange with any stream of StreamTexts, cut into chunks anywhere
InitStream ==
  /\ inputValue = <<>>
  /\ pendingImages = <<>>
  /\ disabled = setBusy(FALSE)
  /\ messages = <<>>
  /\ sess = <<>>
  /\ net = <<>>
  /\ personaId = NoPid
  /\ defaultPersonaId = NoPid
  /\ personaNameCache = [p \in {} |-> ""]
  /\ markedLoaded = TRUE
  /\ lastSend = "none"
  /\ files = [f \in Files |-> "idle"]
  /\ deletions = <<>>
  /\ loads = <<FirstLoadReturned(personaId)>>

NextStream ==
  \/ Type(<<"h", "i">>)
  \/ PressEnter(1)
  \/ \E s \in 1..Len(sess) : FetchOk(s, StreamTexts)
  \/ \E s \in 1..Len(sess) : \E n \in ChunkSizes(Rest(net[s])) : ReadChunk(s, n)
  \/ \E s \in 1..Len(sess) : Resume(s)
  \/ \E s \in 1..Len(sess) : ReadDone(s)

SpecStream == InitStream /\ [][NextStream]_vars

\* the segments of the decoder specification: frames, a frame without its
\* separator, and stray white space between them
DecSegs == {Frame("K"), Frame("H"), DataPrefix \o <<"N">>, <<NL>>, <<SP>>}
DecTexts == Concats(DecSegs, MaxDecSegs)

NextDec ==
  \/ Type(<<"h", "i">>)
  \/ PressEnter(1)
  \/ \E s \in 1..Len(sess) : FetchOk(s, DecTexts)
  \/ \E s \in 1..Len(sess) : \E n \in ChunkSizes(Rest(net[s])) : ReadChunk(s, n)
  \/ \E s \in 1..Len(sess) : Resume(s)
  \/ \E s \in 1..Len(sess) : ReadDone(s)

\* one exchange with any stream of DecTexts, cut into chunks anywhere
SpecDec == InitStream /\ [][NextDec]_vars

\* the composer with attachments: typing, files chosen and pasted, previews
\* removed, two submissions while the persona name is looked up or cached,
\* and chat requests that fail
InitAttach ==
  /\ inputValue = <<>>
  /\ pendingImages = <<>>
  /\ disabled = setBusy(FALSE)
  /\ messages = <<>>
  /\ sess = <<>>
  /\ net = <<>>
  /\ personaId = "p1"
  /\ defaultPersonaId = NoPid
  /\ personaNameCache = [p \in {} |-> ""]
  /\ markedLoaded = TRUE
  /\ lastSend = "none"
  /\ files = [f \in Files |-> "idle"]
  /\ deletions = <<>>
  /\ loads = <<FirstLoadReturned(personaId)>>

NextAttach ==
  \/ \E t \in InputTexts : Type(t)
  \/ ClickSend(2)
  \/ PressEnter(2)
  \/ \E f \in Files : ChooseFile(f)
  \/ \E f \in Files : PasteImage(f)
  \/ \E f \in Files : ImageRead(f)
  \/ \E i \in 1..Len(pendingImages) : RemoveAttachment(i)
  \/ \E s \in 1..Len(sess) : PersonaReply(s, [kind |-> "ok", name |-> "Ada"])
  \/ \E s \in 1..Len(sess) : FetchReject(s)

SpecAttach == InitAttach /\ [][NextAttach]_vars

\* the segments of the reconciliation specification: done records with
\* timestamps, with other timestamps, with an empty user timestamp, and a
\* token
MetaSegs == {Frame(c) : c \in {"T", "R", "W", "K"}}
MetaTexts == Concats(MetaSegs, MaxSegs)

NextMeta ==
  \/ Type(<<"h", "i">>)
  \/ PressEnter(1)
  \/ \E s \in 1..Len(sess) : FetchOk(s, MetaTexts)
  \/ \E s \in 1..Len(sess) : \E n \in LineChunks(Rest(net[s])) : ReadChunk(s, n)
  \/ \E s \in 1..Len(sess) : ReadDone(s)

\* one exchange with any stream of MetaTexts, cut into chunks at line ends
SpecMeta == InitStream /\ [][NextMeta]_vars

\* the response of the deletion specification: a token and a done record that
\* carries both timestamps
DeleteTexts == {Frame("K") \o Frame("T")}

NextDelete ==
  \/ Type(<<"h", "i">>)
  \/ PressEnter(1)
  \/ \E s \in 1..Len(sess) : FetchOk(s, DeleteTexts)
  \/ \E s \in 1..Len(sess) : \E n \in LineChunks(Rest(net[s])) : ReadChunk(s, n)
  \/ \E s \in 1..Len(sess) : ReadDone(s)
  \/ \E s \in 1..Len(sess), kind \in {"user", "assistant"} : ClickRemove(s, kind)
  \/ \E d \in 1..Len(deletions) : DeleteOk(d)
  \/ \E d \in 1..Len(deletions) : DeleteNotOk(d)
  \/ \E d \in 1..Len(deletions), body \in ErrBodies : DeleteErrBody(d, body)
  \/ \E d \in 1..Len(deletions) : DeleteReject(d)

\* one exchange whose entries get remove buttons, and the deletions the user
\* asks for
SpecDelete == InitStream /\ [][NextDelete]_vars

\* exchanges one after the other, each of which can fail: the request is
\* rejected, the response is not ok, its body cannot be read, the stream breaks
NextFail ==
  \/ Type(<<"h", "i">>)
  \/ PressEnter(MaxSends)
  \/ \E s \in 1..Len(sess) : FetchReject(s)
  \/ \E s \in 1..Len(sess) : FetchNotOk(s)
  \/ \E s \in 1..Len(sess), body \in ErrBodies : ErrBody(s, body)
  \/ \E s \in 1..Len(sess) : ErrBodyReject(s)
  \/ \E s \in 1..Len(sess) : FetchOk(s, ConcTexts)
  \/ \E s \in 1..Len(sess) : \E n \in LineChunks(Rest(net[s])) : ReadChunk(s, n)
  \/ \E s \in 1..Len(sess) : Resume(s)
  \/ \E s \in 1..Len(sess) : ReadDone(s)
  \/ \E s \in 1..Len(sess) : ReadFail(s)

SpecFail == InitStream /\ [][NextFail]_vars

\* the segments of the classification specification: records with all four
\* fields (searching true, and false), with token and done, with an empty
\* thinking delta, with a done that is false, with an unknown field, and a
\* token
KindSegs == {Frame(c) : c \in {"A", "M", "B", "E", "D", "U", "K"}}
KindTexts == Concats(KindSegs, MaxSegs)

NextKinds ==
  \/ Type(<<"h", "i">>)
  \/ PressEnter(1)
  \/ \E s \in 1..Len(sess) : FetchOk(s, KindTexts)
  \/ \E s \in 1..Len(sess) : \E n \in LineChunks(Rest(net[s])) : ReadChunk(s, n)
  \/ \E s \in 1..Len(sess) : Resume(s)
  \/ \E s \in 1..Len(sess) : ReadDone(s)

\* one exchange with any stream of KindTexts, cut into chunks at line ends
SpecKinds == InitStream /\ [][NextKinds]_vars

\* the segments of the tail specification: a token, a done record with final
\* text, sources and timestamps, the same record without its separator, and
\* with one newline only
TailSegs == {Frame("K"), Frame("G"), DataPrefix \o <<"G">>, DataPrefix \o <<"G", NL>>}
TailTexts == Concats(TailSegs, MaxDecSegs)

NextTail ==
  \/ Type(<<"h", "i">>)
  \/ PressEnter(1)
  \/ \E s \in 1..Len(sess) : FetchOk(s, TailTexts)
  \/ \E s \in 1..Len(sess) : \E n \in ChunkSizes(Rest(net[s])) : ReadChunk(s, n)
  \/ \E s \in 1..Len(sess) : ReadDone(s)

\* one exchange with any stream of TailTexts, cut into chunks anywhere
SpecTail == InitStream /\ [][NextTail]_vars

\* an awaited transport operation of invocation s settles (lines 36-45, 147,
\* 166, 173, 235): the persona lookup, the chat request, the body of a
\* response that is not ok, a read that reports the end or is rejected
Transport(s) ==
  /\ s \in 1..Len(sess)
  /\ \/ PersonaReply(s, [kind |-> "ok", name |-> "Ada"])
     \/ FetchReject(s)
     \/ FetchNotOk(s)
     \/ \E body \in ErrBodies : ErrBody(s, body)
     \/ ErrBodyReject(s)
     \/ FetchOk(s, ConcTexts)
     \/ ReadDone(s)
     \/ ReadFail(s)

\* whatever invocation s awaits settles: a transport operation, a read that
\* delivers a chunk (line 235), the timer of yieldToPaint() (lines 230, 257)
Settle(s) ==
  \/ Transport(s)
  \/ /\ s \in 1..Len(sess)
     /\ \/ \E n \in LineChunks(Rest(net[s])) : ReadChunk(s, n)
        \/ Resume(s)

\* line 257: the invocation is suspended in yieldToPaint()
Yielded(s) == s \in 1..Len(sess) /\ sess[s].pc = "yield"

NextLive ==
  \/ Type(<<"h", "i">>)
  \/ PressEnter(2)
  \/ \E s \in 1..2 : Settle(s)

\* two submissions, overlapping while the persona name is looked up or one
\* after the other, with every outcome; whatever an invocation awaits
\* settles in the end.  A pending read can always fail, so weak fairness of
\* Transport excludes a read that never settles whether or not a chunk is
\* what arrives; the timer is never cancelled, so no invocation stays
\* in yieldToPaint() for ever
SpecLive ==
  /\ InitAttach
  /\ [][NextLive]_vars
  /\ \A s \in 1..2 : WF_vars(Transport(s))
  /\ \A s \in 1..2 : []<>(~Yielded(s))

\* the history under persona changes: the load of the page is in flight
\* (lines 596-598), the selection changes while loads are pending or after
\* they returned, loaded entries are removed
InitPersona ==
  /\ inputValue = <<>>
  /\ pendingImages = <<>>
  /\ disabled = setBusy(FALSE)
  /\ messages = <<>>
  /\ sess = <<>>
  /\ net = <<>>
  /\ personaId = NoPid
  /\ defaultPersonaId \in {NoPid, "p1"}
  /\ personaNameCache = [p \in {} |-> ""]
  /\ markedLoaded = TRUE
  /\ lastSend = "none"
  /\ files = [f \in Files |-> "idle"]
  /\ deletions = <<>>
  /\ loads = <<NewLoad(NoPid)>>

NextPersona ==
  \/ \E p \in Personas \cup {NoPid} : ChangePersona(p, MaxLoads)
  \/ \E l \in 1..Len(loads) : LoadNotOk(l)
  \/ \E l \in 1..Len(loads) : LoadReject(l)
  \/ \E l \in 1..Len(loads) : LoadOk(l)
  \/ \E l \in 1..Len(loads), entries \in Histories : LoadJson(l, entries)
  \/ \E l \in 1..Len(loads) : LoadName(l, [kind |-> "ok", name |-> "Ada"])
  \/ \E k \in 1..Len(messages) : ClickRemoveLoaded(k)
  \/ \E d \in 1..Len(deletions) : DeleteOk(d)

SpecPersona == InitPersona /\ [][NextPersona]_vars


\* ------------------------------------------------------------------ vocabulary

Sessions == 1..Len(sess)

\* the invocations that have a response stream
Streams == {s \in Sessions : sess[s].pc \in {"read", "yield", "finished"}}

\* the phase a view is in: Finished once a done record was dispatched
ViewPhase(v) ==
  IF v.doneSeen THEN "Finished"
  ELSE IF v.showingThinking THEN "ThinkingVisible"
  ELSE "Responding"

\* the phase of a session: Finished also once send() has left the read loop
Phase(st) == IF st.pc = "finished" THEN "Finished" ELSE ViewPhase(st.v)

\* the view the j-th dispatched record left behind
PostOf(st, j) == IF j < Len(st.log) THEN st.log[j + 1].pre ELSE st.v

\* the chat request of s is issued and send() has not returned
InFlight(s) == sess[s].pc \in {"awaitFetch", "awaitErrBody", "read", "yield"}

ComposerEnabled == ~disabled.input /\ ~disabled.sendBtn /\ ~disabled.attachBtn

\* the body read so far
Delivered(n) == SubSeq(n.all, 1, n.pos)

\* the frames of a text that arrives as one chunk
OneChunkFrames(text) == PopRest(SplitSep(text))

\* the branch the frame of a one-chunk text takes
KindOfFrame(f) ==
  IF ~StartsWith(Trim(f), DataPrefix) THEN "skipped"
  ELSE IF JSONok(Slice(Trim(f), 6)) THEN Classify(JSONparse(Slice(Trim(f), 6)))
  ELSE "malformed"

\* the chat request of invocation s is among the requests n
IssuedIn(n, s) == s \in 1..Len(n) /\ n[s].request.sent

\* the images of the chat request of s, none while it is not issued
ImagesOf(s) == IF IssuedIn(net, s) THEN net[s].request.images ELSE <<>>

\* the elements of a sequence
Range(seq) == {seq[k] : k \in 1..Len(seq)}

\* the first truthy timestamp in field f of the done records of a history,
\* NoTs when there is none
FirstTs(log, f) ==
  LET J == {j \in 1..Len(log) : log[j].kind = "done" /\ TruthyText(log[j].ev, f)}
  IN IF J = {} THEN NoTs
     ELSE log[CHOOSE j \in J : \A k \in J : j <= k].ev[f]

\* an entry bound to timestamp ts, NoTs for none
BoundTo(ts) == IF ts = NoTs THEN NoRemove ELSE [attr |-> ts, buttons |-> <<ts>>]

\* the entries of invocation s of the given kind
EntriesOf(msgs, s, kind) == SelectSeq(msgs, LAMBDA m : m.kind = kind /\ m.of = s)

\* the tests of the dispatch chain in their order (lines 246, 251, 259, 275)
KindOrder == <<"searching", "thinking", "token", "done">>

\* the test of kind k passes for the record
Passes(ev, k) ==
  CASE k = "searching" -> "searching" \in DOMAIN ev /\ ev.searching = TRUE
    [] k = "thinking" -> "thinking" \in DOMAIN ev
    [] k = "token" -> "token" \in DOMAIN ev
    [] k = "done" -> "done" \in DOMAIN ev /\ ev.done = TRUE

\* the first kind in the order whose test passes, "none" when none does
FirstKind(ev) ==
  LET I == {i \in 1..Len(KindOrder) : Passes(ev, KindOrder[i])}
  IN IF I = {} THEN "none"
     ELSE KindOrder[CHOOSE i \in I : \A k \in I : i <= k]

\* the tokens of the first j records of a history, concatenated in order
RECURSIVE TokensUpTo(_, _)
TokensUpTo(log, j) ==
  IF j = 0 THEN <<>>
  ELSE TokensUpTo(log, j - 1) \o
       (IF log[j].kind = "token" THEN log[j].ev.token ELSE <<>>)

\* no done record comes before the first token record of the history
NoDoneBeforeFirstToken(log) ==
  \A j \in 1..Len(log) :
    log[j].kind = "done" => \E i \in 1..(j - 1) : log[i].kind = "token"

\* how many of the frames start, trimmed, with "data: "
DataFrames(frames) ==
  Cardinality({k \in 1..Len(frames) : StartsWith(Trim(frames[k]), DataPrefix)})

\* send() invocation s has made the composer busy (line 154) and has not
\* reached the end of its finally block (line 330)
Busy(s) == s \in Sessions /\ InFlight(s)

\* a provisional indicator (#thinkingIndicator) is rendered
IndicatorShown == \E k \in 1..Len(messages) : messages[k].kind = "thinking"

\* ------------------------------------------------------------------ claims

\* C1: at most one exchange is in flight: no two send() invocations have both
\* issued their chat request and not yet returned.
C1_OneExchangeInFlight ==
  \A s, t \in Sessions : (InFlight(s) /\ InFlight(t)) => s = t

\* C2 (its "only if" half): whenever the composer is enabled, no session is
\* ThinkingVisible or Responding, so setBusy(false) never re-enables the
\* composer while a session is still consuming its stream.
C2_EnabledOnlyWhenNoSessionStreams ==
  ComposerEnabled =>
    \A s \in Streams : Phase(sess[s]) \notin {"ThinkingVisible", "Responding"}

\* C3: a record dispatched after a done record leaves fullText as it was.
C3_TextFrozenAfterDone ==
  \A s \in Streams : \A j \in 1..Len(sess[s].log) :
    sess[s].log[j].pre.doneSeen =>
      PostOf(sess[s], j).fullText = sess[s].log[j].pre.fullText

\* C4 as claimed: hasAnyThinking is true iff a searching or a thinking record
\* was dispatched, whatever the phase.
C4_SawThinkingIffAnyEvent ==
  \A s \in Streams :
    sess[s].v.hasAnyThinking <=>
      \E j \in 1..Len(sess[s].log) : sess[s].log[j].kind \in {"searching", "thinking"}

\* C4 as amended: hasAnyThinking is true iff a searching record was dispatched
\* (in any phase) or a thinking record was dispatched before the first token
\* record.
C4_SawThinkingIffShown ==
  \A s \in Streams :
    sess[s].v.hasAnyThinking <=>
      \E j \in 1..Len(sess[s].log) :
        \/ sess[s].log[j].kind = "searching"
        \/ /\ sess[s].log[j].kind = "thinking"
           /\ \A i \in 1..(j - 1) : sess[s].log[i].kind # "token"

\* a thinking record came after a token record and was not counted
C4_Witness ==
  \E s \in Streams :
    /\ ~sess[s].v.hasAnyThinking
    /\ \E i, j \in 1..Len(sess[s].log) :
         i < j /\ sess[s].log[i].kind = "token" /\ sess[s].log[j].kind = "thinking"

\* C5: when the stream has ended, the thinking region is displayed iff
\* hasAnyThinking is true.
C5_RegionShownIffSawThinking ==
  \A s \in Streams :
    sess[s].pc = "finished" =>
      (sess[s].v.sectionDisplay # "none" <=> sess[s].v.hasAnyThinking)

\* C6: when the stream has ended, the response text is the final field of the
\* done record that carried one.
C6_FinalIsTheResponseText ==
  \A s \in Streams :
    sess[s].pc = "finished" =>
      \A j \in 1..Len(sess[s].log) :
        (sess[s].log[j].kind = "done" /\ Has(sess[s].log[j].ev, "final")) =>
          /\ sess[s].v.fullText = sess[s].log[j].ev.final
          /\ sess[s].v.responseText = sess[s].log[j].ev.final

\* C7: a token record dispatched in ThinkingVisible makes fullText the token,
\* the phase Responding and the thinking region collapsed; dispatched in
\* Responding it appends the token to fullText; in both cases the response
\* region is displayed and shows fullText.
C7_TokenResetsThenAppends ==
  \A s \in Streams : \A j \in 1..Len(sess[s].log) :
    LET e == sess[s].log[j]
        post == PostOf(sess[s], j)
    IN e.kind = "token" =>
         /\ ViewPhase(e.pre) = "ThinkingVisible" =>
              /\ post.fullText = e.ev.token
              /\ ViewPhase(post) = "Responding"
              /\ post.collapsed
         /\ ViewPhase(e.pre) = "Responding" =>
              post.fullText = e.pre.fullText \o e.ev.token
         /\ ViewPhase(e.pre) \in {"ThinkingVisible", "Responding"} =>
              /\ post.responseDisplay # "none"
              /\ post.responseText = post.fullText

\* a token was appended to the text an earlier token had set
C7_Witness ==
  \E s \in Streams : \E j \in 1..Len(sess[s].log) :
    /\ sess[s].log[j].kind = "token"
    /\ ViewPhase(sess[s].log[j].pre) = "Responding"
    /\ sess[s].log[j].pre.fullText # <<>>
    /\ \E i \in 1..(j - 1) : sess[s].log[i].kind = "thinking"

\* C8: however the body is cut into chunks, the parts handed to the for loop
\* are the frames of the body read so far arriving as one chunk, in the same
\* order, and the buffer holds what follows the last separator.
C8_FramesIndependentOfChunks ==
  \A s \in Streams :
    LET st == sess[s]
        whole == SplitSep(Delivered(net[s]))
    IN /\ st.pc \in {"read", "finished"} => st.handed = PopRest(whole)
       /\ st.pc = "yield" =>
            st.handed \o SubSeq(st.parts, st.i + 1, Len(st.parts)) = PopRest(whole)
       /\ st.buffer = PopLast(whole)
       /\ st.pc = "finished" => st.handed = OneChunkFrames(net[s].all)

\* a chunk ended between the two newlines of a separator, after a frame had
\* been handed on
C8_Witness ==
  \E s \in Streams :
    /\ sess[s].pc = "read"
    /\ sess[s].handed # <<>>
    /\ sess[s].buffer # <<>>
    /\ sess[s].buffer[Len(sess[s].buffer)] = NL
    /\ StartsWith(sess[s].buffer, DataPrefix)
    /\ Rest(net[s]) # <<>>
    /\ Head(Rest(net[s])) = NL

\* C9: a frame that is not JSON leaves the view as it found it, and when the
\* stream has ended every frame of the body has taken the branch it takes
\* on its own, those after a malformed frame included.
C9_MalformedFrameSkipped ==
  \A s \in Streams :
    /\ \A j \in 1..Len(sess[s].log) :
         sess[s].log[j].kind = "malformed" => PostOf(sess[s], j) = sess[s].log[j].pre
    /\ sess[s].pc = "finished" =>
         LET frames == OneChunkFrames(net[s].all)
         IN /\ Len(sess[s].log) = Len(frames)
            /\ \A j \in 1..Len(frames) : sess[s].log[j].kind = KindOfFrame(frames[j])

\* a valid frame after a malformed one changed the view
C9_Witness ==
  \E s \in Streams : \E j \in 2..Len(sess[s].log) :
    /\ sess[s].pc = "finished"
    /\ sess[s].log[j - 1].kind = "malformed"
    /\ sess[s].log[j].kind \in {"token", "done"}
    /\ PostOf(sess[s], j) # sess[s].log[j].pre

C11_EmptySubmitIsNoOp ==
  [][ (lastSend' # lastSend /\ Trim(inputValue) = <<>> /\ pendingImages = <<>>) =>
        /\ lastSend' = "returned"
        /\ UNCHANGED <<inputValue, pendingImages, disabled, messages, sess, net>>
    ]_vars

\* send() has returned at the guard with a blank in the input, after an
\* exchange that carried an image
C11_Witness ==
  /\ lastSend = "returned"
  /\ inputValue = <<SP>>
  /\ pendingImages = <<>>
  /\ ComposerEnabled
  /\ \E s \in Sessions : net[s].request.sent /\ net[s].request.images # <<>>

\* C12: every chat request send() has issued carries a message that is not
\* empty or at least one image.
C12_RequestCarriesTextOrImage ==
  \A s \in Sessions :
    net[s].request.sent =>
      (net[s].request.message # <<>> \/ net[s].request.images # <<>>)

\* C13: the step that issues a chat request puts the pending list, encoded
\* and in its order, into the request and leaves the list empty; the list
\* changes in no other way than by that step, by an image pushed at its end
\* or by the removal of one preview; and no image is in two requests.
C13_SnapshotThenClear ==
  [][ /\ \A s \in 1..Len(net') :
           (IssuedIn(net', s) /\ ~IssuedIn(net, s)) =>
             /\ net'[s].request.images = MapBase64(pendingImages)
             /\ pendingImages' = <<>>
      /\ pendingImages' # pendingImages =>
           \/ \E s \in 1..Len(net') : IssuedIn(net', s) /\ ~IssuedIn(net, s)
           \/ \E img \in {Resized(f) : f \in Files} \cup {Original(f) : f \in Files} :
                pendingImages' = Append(pendingImages, img)
           \/ /\ \E i \in 1..Len(pendingImages) :
                   pendingImages' = Splice(pendingImages, i)
              /\ net' = net
      /\ \A s, t \in 1..Len(net') :
           (s # t /\ IssuedIn(net', s) /\ IssuedIn(net', t)) =>
             Range(net'[s].request.images) \cap Range(net'[t].request.images) = {}
    ]_vars

\* one request took two images in the order they were pushed, the later
\* file first, and another request took none of them
C13_Witness ==
  /\ pendingImages = <<>>
  /\ \E s, t \in Sessions :
       /\ s # t
       /\ ImagesOf(s) = <<dataUrlToBase64(Original(2)), dataUrlToBase64(Resized(1))>>
       /\ IssuedIn(net, t)
       /\ ImagesOf(t) = <<>>

\* C14: after any sequence of done records, the user entry and the assistant
\* entry each carry no remove button, or exactly one, whose handler and whose
\* attribute hold the first timestamp a done record gave for the entry; later
\* timestamps change nothing.
C14_FirstTimestampBoundOnce ==
  \A s \in Streams :
    /\ sess[s].v.userRemove = BoundTo(FirstTs(sess[s].log, "user_timestamp"))
    /\ sess[s].v.assistantRemove = BoundTo(FirstTs(sess[s].log, "assistant_timestamp"))

\* a done record with an empty user timestamp bound the assistant entry only,
\* and two later done records with other timestamps were dispatched
C14_Witness ==
  \E s \in Streams :
    /\ Len(sess[s].log) = 3
    /\ sess[s].log[1].ev = JSONValue("W")
    /\ sess[s].log[2].ev = JSONValue("R")
    /\ sess[s].log[3].ev = JSONValue("T")
    /\ sess[s].v.userRemove.buttons = <<"t3">>
    /\ sess[s].v.assistantRemove.buttons = <<"t5">>

\* C15: the step in which the store's answer to a deletion request is handled
\* leaves the entry out of the rendered list when the answer is success, and
\* when the answer is a failure or the store cannot be reached it shows an
\* error and leaves the entry in the rendered list; this for every request,
\* also one issued while an earlier request for the same entry is pending.
C15_DeletionOutcome ==
  [][ \A d \in 1..Len(deletions) :
        (deletions[d].pc \in {"pending", "awaitErrBody"}) =>
          /\ deletions'[d].pc = "succeeded" =>
                ~Rendered(messages', deletions[d].of, deletions[d].kind)
          /\ deletions'[d].pc \in {"failed", "unreachable"} =>
                /\ Len(messages') = Len(messages) + 1
                /\ messages'[Len(messages')].kind = "error"
                /\ Rendered(messages', deletions[d].of, deletions[d].kind)
    ]_vars

\* C16 as claimed: when send() is done with a response that is not ok, it has
\* shown one error whose text is the error field of the body if the body is
\* JSON with an error field that is not empty, and the status message in
\* every other case; no assistant entry is rendered, no record was
\* dispatched, and the composer is enabled.
C16_NotOkShowsBodyErrorOrStatus ==
  [][ \A s \in Sessions :
        (sess[s].pc = "awaitErrBody" /\ sess'[s].pc # "awaitErrBody") =>
          LET body == net'[s].errBody
          IN /\ EntriesOf(messages', s, "error") =
                  <<[kind |-> "error", of |-> s, images |-> <<>>,
                     text |-> IF body.json /\ body.error # "" THEN body.error
                              ELSE "Server returned status"]>>
             /\ EntriesOf(messages', s, "assistant") = <<>>
             /\ sess'[s].log = <<>>
             /\ ComposerEnabled'
    ]_vars

\* C16 as amended: the same when the body has been read; when reading the
\* body fails, the error shown is the connectivity error, and also then no
\* assistant entry is rendered, no record was dispatched and the composer
\* is enabled.
C16_NotOkShowsBodyErrorOrStatusIfRead ==
  [][ \A s \in Sessions :
        (sess[s].pc = "awaitErrBody" /\ sess'[s].pc # "awaitErrBody") =>
          LET body == net'[s].errBody
          IN /\ sess'[s].pc \in {"refused", "failed"}
             /\ EntriesOf(messages', s, "error") =
                  <<[kind |-> "error", of |-> s, images |-> <<>>,
                     text |-> IF sess'[s].pc = "failed"
                              THEN "Could not reach the server."
                              ELSE IF body.json /\ body.error # "" THEN body.error
                              ELSE "Server returned status"]>>
             /\ EntriesOf(messages', s, "assistant") = <<>>
             /\ sess'[s].log = <<>>
             /\ ComposerEnabled'
    ]_vars

\* a second exchange was refused with an error field in the body, after a
\* first one whose body had none: both errors are shown, the composer is
\* enabled
C16_Witness ==
  /\ Len(sess) = 2
  /\ sess[1].pc = "refused"
  /\ net[1].errBody = [json |-> TRUE, error |-> ""]
  /\ sess[2].pc = "refused"
  /\ net[2].errBody = [json |-> TRUE, error |-> "quota"]
  /\ EntriesOf(messages, 1, "error")[1].text = "Server returned status"
  /\ EntriesOf(messages, 2, "error")[1].text = "quota"
  /\ ComposerEnabled

\* C17: whenever the connectivity error is shown for an exchange, no record
\* of that exchange has been dispatched and its view is as it was created.
C17_ConnectivityErrorBeforeAnyEvent ==
  \A s \in Sessions :
    (\E k \in 1..Len(messages) :
       /\ messages[k].kind = "error"
       /\ messages[k].of = s
       /\ messages[k].text = "Could not reach the server.") =>
      /\ sess[s].log = <<>>
      /\ sess[s].v = NewView

\* C18: every decoded record takes the branch of the first kind, in the order
\* searching, thinking, token, done, whose field it carries (searching and
\* done truthy, thinking and token present), and the view after it is the
\* view that branch alone leaves; a record that carries none of the fields
\* leaves the view as it was.
C18_FirstKindOnly ==
  \A s \in Streams : \A j \in 1..Len(sess[s].log) :
    LET e == sess[s].log[j]
        post == PostOf(sess[s], j)
        k == FirstKind(e.ev)
    IN e.kind # "malformed" =>
         /\ e.kind = k
         /\ k = "searching" => post = SearchingBranch(e.pre)
         /\ k = "thinking" => post = ThinkingBranch(e.pre, e.ev)
         /\ k = "token" => post = TokenBranch(e.pre, e.ev)
         /\ k = "done" => post = DoneBranch(e.pre, e.ev)
         /\ k = "none" => post = e.pre

\* a record with all four fields was handled as searching, one with token
\* and done as a token, not as done, and one with an unknown field changed
\* nothing
C18_Witness ==
  \E s \in Streams :
    /\ Len(sess[s].log) = 3
    /\ sess[s].log[1].ev = JSONValue("A")
    /\ sess[s].log[2].ev = JSONValue("B")
    /\ sess[s].log[3].ev = JSONValue("U")
    /\ sess[s].log[2].pre.thinkingText = SearchMarker
    /\ sess[s].log[2].pre.fullText = <<>>
    /\ sess[s].v.fullText = <<"b">>
    /\ ~sess[s].v.doneSeen
    /\ sess[s].pc = "finished"

\* C19: a record dispatched when showingThinking is false leaves it false, and
\* a record dispatched in a phase other than ThinkingVisible leaves the session
\* in a phase other than ThinkingVisible; so the phase once left is never
\* entered again.
C19_ThinkingVisibleNeverReentered ==
  \A s \in Streams : \A j \in 1..Len(sess[s].log) :
    LET pre == sess[s].log[j].pre
        post == PostOf(sess[s], j)
    IN /\ ~pre.showingThinking => ~post.showingThinking
       /\ ViewPhase(pre) # "ThinkingVisible" => ViewPhase(post) # "ThinkingVisible"

\* after a token, a searching record and a thinking record were dispatched
\* and the stream ended with showingThinking false
C19_Witness ==
  \E s \in Streams :
    /\ sess[s].pc = "finished"
    /\ Len(sess[s].log) = 3
    /\ sess[s].log[1].kind = "token"
    /\ sess[s].log[2].kind = "searching"
    /\ sess[s].log[3].kind = "thinking"
    /\ ~sess[s].v.showingThinking

\* C20: a record dispatched after the session has left ThinkingVisible
\* (showingThinking is false) leaves the thinking buffer as it was.
C20_ThinkingBufferFrozen ==
  \A s \in Streams : \A j \in 1..Len(sess[s].log) :
    ~sess[s].log[j].pre.showingThinking =>
      PostOf(sess[s], j).thinkingText = sess[s].log[j].pre.thinkingText

\* C21: in a history where no done record comes before the first token
\* record, fullText after each token record is the concatenation, in order,
\* of the tokens dispatched so far.
C21_TextIsTokensSoFar ==
  \A s \in Streams :
    NoDoneBeforeFirstToken(sess[s].log) =>
      \A j \in 1..Len(sess[s].log) :
        sess[s].log[j].kind = "token" =>
          PostOf(sess[s], j).fullText = TokensUpTo(sess[s].log, j)

\* C22: when the stream has ended, what follows the last separator of the
\* body is still in the buffer and was not dispatched: the history holds one
\* record per "data: " frame that had its separator, and if none of them was
\* a done record, then fullText is the tokens received, there are no sources,
\* no entry has a remove button and the thinking region is not hidden,
\* whatever the buffer holds.
C22_TailNeverDispatched ==
  \A s \in Streams :
    sess[s].pc = "finished" =>
      LET st == sess[s]
          whole == SplitSep(net[s].all)
      IN /\ st.buffer = PopLast(whole)
         /\ Len(st.log) = DataFrames(PopRest(whole))
         /\ (\A j \in 1..Len(st.log) : st.log[j].kind # "done") =>
              /\ ~st.v.doneSeen
              /\ st.v.fullText = TokensUpTo(st.log, Len(st.log))
              /\ st.v.sources = <<>>
              /\ ~st.after.sourcesShown
              /\ st.v.userRemove = NoRemove
              /\ st.v.assistantRemove = NoRemove
              /\ st.v.sectionDisplay # "none"

\* the stream ended with a token dispatched and a done record, without its
\* separator, left in the buffer
C22_Witness ==
  \E s \in Streams :
    /\ sess[s].pc = "finished"
    /\ sess[s].buffer = DataPrefix \o <<"G">>
    /\ KindOfFrame(sess[s].buffer) = "done"
    /\ Len(sess[s].log) = 1
    /\ sess[s].v.fullText = <<"k">>
    /\ sess[s].v.sources = <<>>
    /\ sess[s].v.userRemove = NoRemove

\* C23: whenever a send() invocation has made the composer busy and has not
\* returned, a state follows in which every such invocation has returned, the
\* composer is enabled and no provisional indicator is rendered, whatever
\* the outcomes of the exchanges, provided that what the invocations await
\* settles.  An invocation that has returned stays returned, so this holds
\* for each of them.
C23_BusyEndsAndIndicatorGoes ==
  (\E s \in Sessions : Busy(s)) ~>
    ((\A s \in Sessions : ~Busy(s)) /\ ComposerEnabled /\ ~IndicatorShown)

\* two overlapping exchanges have ended, one by a read that failed after a
\* record was dispatched and one by a response that was not ok; the composer
\* is enabled and no indicator is left
C23_Witness ==
  /\ Len(sess) = 2
  /\ \E s, t \in Sessions :
       /\ sess[s].pc = "failed"
       /\ sess[s].log # <<>>
       /\ sess[t].pc = "refused"
  /\ ComposerEnabled
  /\ ~IndicatorShown
  /\ \E k \in 1..(Len(messages) - 1) :
       messages[k].kind = "user" /\ messages[k + 1].kind = "user"

\* every call of loadMemory() so far has returned or failed
LoadsSettled == \A l \in 1..Len(loads) : loads[l].pc \in {"returned", "failed"}

\* the entries loadMemory() rendered that are children of #messages
LoadedRendered == {k \in 1..Len(messages) : messages[k].kind = "memory"}

\* C24: once the persona selection has changed and no call of loadMemory()
\* is pending, every rendered entry that was loaded comes from the store of
\* the selected persona; and every deletion of a loaded entry is sent with
\* the persona of the store the entry came from.
C24_RenderedIsCurrentPersona ==
  /\ (Len(loads) > 1 /\ LoadsSettled) =>
       \A k \in LoadedRendered : messages[k].store = StoreOf(personaId)
  /\ \A d \in 1..Len(deletions) :
       deletions[d].kind = "memory" =>
         StoreOf(deletions[d].body.persona_id) = deletions[d].store

====
